---- MODULE Spec2Model ----
(***************************************************************************)
(* Model of split.go: the concurrent chunk pipeline ProcessFile            *)
(* (readChunks -> num workers -> writeResults) and its synchronisation.    *)
(* Goroutines are processes with a program counter; buffered channels are  *)
(* bounded FIFO sequences with a closed flag; the unbuffered completion    *)
(* channel is a rendezvous between writeResults and ProcessFile.           *)
(***************************************************************************)
EXTENDS Integers, Sequences, FiniteSets, TLC

\* ---------------------------------------------------------------- bounds
MaxFileLen == 3      \* longest input file, in bytes
MaxSize    == 2      \* largest chunk size
MaxNum     == 2      \* largest number of workers
MaxOldLen  == 1      \* longest content of a pre-existing output file
MaxRecSize == 2      \* largest record size asked of ReadValue
IntBits    == 4      \* bits of the two's-complement integers standing for int64

Bytes    == {1, 2}   \* the bytes an input file is made of
OldBytes == {9}      \* the bytes a pre-existing output file is made of

\* All sequences over S of length at most n.
SeqsUpTo(S, n) == UNION {[1..k -> S] : k \in 0..n}

Files     == SeqsUpTo(Bytes, MaxFileLen)
OldFiles  == SeqsUpTo(OldBytes, MaxOldLen)
Workers   == 1..MaxNum

\* The transforms handed to ProcessFile. The first two keep the index (the
\* contract of the process argument), the last two do not.
IndexPreserving == {"identity", "double"}
Transforms      == IndexPreserving \cup {"zero", "shift"}

VARIABLES
    \* arguments of ProcessFile and the file system before the call
    inFile,            \* bytes of inputFile
    size,              \* chunk size
    num,               \* number of workers, capacity of both channels
    process,           \* the transform
    outOld,            \* bytes of outputFile before the call (<<>>: none)
    \* ProcessFile
    pcMain,            \* position of ProcessFile
    spawned,           \* workers started so far (loop variable i, line 104)
    wg,                \* sync.WaitGroup counter
    received,          \* value read from writingSuccessful: "none", "true", "false"
    panicked,          \* a goroutine panicked (send on a closed channel)
    \* readChunks
    pcRead,            \* "idle", "open", "read", "done"
    i,                 \* loop index of readChunks (line 38)
    pos,               \* read position in the input file
    readChannel,       \* buffered channel of shards
    readClosed,        \* close(output) has run
    inOpenFailed,      \* os.Open(filename) returned an error
    readFailed,        \* io.ReadFull returned an error other than EOF
    sawEOF,            \* io.ReadFull returned io.ErrUnexpectedEOF: the end of the
                       \* file was reached inside a chunk
    \* workers
    pcW,               \* per worker: "idle", "recv", "send", "done"
    held,              \* per worker: the processed shard it is about to send
    resultChannel,     \* buffered channel of shards
    resultClosed,      \* close(resultChannel) has run
    \* writeResults
    pcWrite,           \* "idle", "drain", "open", "write", "sendOpenFail",
                       \* "sendWriteFail", "sendTrue", "close", "sendCloseFail", "done"
    result,            \* map[int]string
    wi,                \* loop index of the write loop (line 77)
    outFile,           \* bytes of outputFile
    offset,            \* file offset of the output file handle
    outOpened,         \* os.OpenFile succeeded
    outOpenFailed,     \* os.OpenFile returned an error
    writeFailedAt,     \* index whose WriteString failed, or -1
    closeFailed,       \* file.Close() of the output returned an error
    \* history
    emitted,           \* shards sent on readChannel, in order
    taken,             \* taken[k+1]: how many times shard k was received and processed
    collected,         \* indices of the results writeResults received, in order
    written,           \* keys i whose payload WriteString wrote in full, in order
    sent,              \* values delivered on writingSuccessful, in order
    \* ReadValue
    rvPc,              \* "idle", "open", "read", "done"
    rvFile,            \* bytes of the file at filePath
    rvIndex,           \* argument index
    rvSize,            \* argument size
    rvFailed,          \* the call that returned an I/O error: "none", "open", "read"
    rvResult           \* what ReadValue returned: [ok, bytes], ok FALSE for nil

cfgVars   == <<inFile, size, num, process, outOld>>
mainVars  == <<pcMain, spawned, wg, received, panicked>>
readVars  == <<pcRead, i, pos, readChannel, readClosed, inOpenFailed, readFailed,
               sawEOF>>
workVars  == <<pcW, held, resultChannel, resultClosed>>
writeVars == <<pcWrite, result, wi, outFile, offset, outOpened, outOpenFailed,
               writeFailedAt, closeFailed>>
histVars  == <<emitted, taken, collected, written, sent>>
pipeVars  == <<cfgVars, mainVars, readVars, workVars, writeVars, histVars>>
rvVars    == <<rvPc, rvFile, rvIndex, rvSize, rvFailed, rvResult>>
vars      == <<pipeVars, rvVars>>

\* ---------------------------------------------------------------- helpers
Min(a, b) == IF a < b THEN a ELSE b

\* type shard struct { index int; value string }
Shard(idx, val) == [index |-> idx, value |-> val]

\* The process argument of ProcessFile applied to a shard.
Process(t, s) ==
    CASE t = "identity" -> s
      [] t = "double"   -> Shard(s.index, s.value \o s.value)
      [] t = "zero"     -> Shard(0, s.value)
      [] t = "shift"    -> Shard(s.index + 1, s.value)

\* result[k] of a Go map[int]string: the zero value "" for a missing key.
Lookup(m, k) == IF k \in DOMAIN m THEN m[k] ELSE <<>>

\* A collector that stores each result under the next free key, in arrival order.
MapPutArrival(m, s) ==
    [k \in DOMAIN m \cup {Cardinality(DOMAIN m)} |->
        IF k \in DOMAIN m THEN m[k] ELSE s.value]
\* result[ct.index] = ct.value
MapPut(m, s) ==
    [k \in DOMAIN m \cup {s.index} |-> IF k = s.index THEN s.value ELSE m[k]]

\* A write of bytes b at offset off into a file opened without O_TRUNC: the
\* bytes under the written range are replaced, the rest of the file stays.
WriteAt(file, off, b) ==
    LET n == IF off + Len(b) > Len(file) THEN off + Len(b) ELSE Len(file)
    IN  [j \in 1..n |-> IF j > off /\ j <= off + Len(b) THEN b[j - off]
                        ELSE file[j]]

\* ---------------------------------------------------------------- Init
\* The value ReadValue returns: nil, or the buffer.
Nil == [ok |-> FALSE, bytes |-> <<>>]
Buffer(b) == [ok |-> TRUE, bytes |-> b]

\* No call of ReadValue is under way.
RvIdle ==
    /\ rvPc = "idle" /\ rvFile = <<>> /\ rvIndex = 0 /\ rvSize = 1
    /\ rvFailed = "none" /\ rvResult = Nil

\* The state at the entry of ProcessFile, its channels made (lines 98-99).
Init ==
    /\ RvIdle
    /\ inFile \in Files
    /\ size \in 1..MaxSize
    /\ num \in 1..MaxNum
    /\ process \in Transforms
    /\ outOld \in OldFiles
    /\ pcMain = "goRead" /\ spawned = 0 /\ wg = 0 /\ received = "none"
    /\ panicked = FALSE
    /\ pcRead = "idle" /\ i = 0 /\ pos = 0
    /\ readChannel = <<>> /\ readClosed = FALSE
    /\ inOpenFailed = FALSE /\ readFailed = FALSE /\ sawEOF = FALSE
    /\ pcW = [w \in Workers |-> "idle"]
    /\ held = [w \in Workers |-> Shard(0, <<>>)]
    /\ resultChannel = <<>> /\ resultClosed = FALSE
    /\ pcWrite = "idle" /\ result = <<>> /\ wi = 0
    /\ outFile = outOld /\ offset = 0
    /\ outOpened = FALSE /\ outOpenFailed = FALSE
    /\ writeFailedAt = -1 /\ closeFailed = FALSE
    /\ emitted = <<>> /\ taken = <<>> /\ collected = <<>>
    /\ written = <<>> /\ sent = <<>>

\* A panic ends the program: no goroutine runs after it.
Running == ~panicked

\* ---------------------------------------------------------------- ProcessFile
\* line 101: go readChunks(inputFile, readChannel, size)
GoReadChunks ==
    /\ Running
    /\ pcMain = "goRead"
    /\ pcMain' = "spawn"
    /\ pcRead' = "open"
    /\ UNCHANGED <<rvVars, cfgVars, spawned, wg, received, panicked, i, pos, readChannel,
                   readClosed, inOpenFailed, readFailed, workVars, writeVars,
                   histVars,
                   sawEOF>>

\* lines 104-113: wg.Add(1); go func() {...}(), once per loop iteration
SpawnWorker ==
    /\ Running
    /\ pcMain = "spawn"
    /\ spawned < num
    /\ wg' = wg + 1
    /\ spawned' = spawned + 1
    /\ pcW' = [pcW EXCEPT ![spawned + 1] = "recv"]
    /\ pcMain' = IF spawned + 1 < num THEN "spawn" ELSE "goWrite"
    /\ UNCHANGED <<rvVars, cfgVars, received, panicked, readVars, held, resultChannel,
                   resultClosed, writeVars, histVars>>

\* lines 115-116: go writeResults(resultChannel, outputFile, writingSuccessful)
GoWriteResults ==
    /\ Running
    /\ pcMain = "goWrite"
    /\ pcMain' = "wait"
    /\ pcWrite' = "drain"
    /\ UNCHANGED <<rvVars, cfgVars, spawned, wg, received, panicked, readVars, workVars,
                   result, wi, outFile, offset, outOpened, outOpenFailed,
                   writeFailedAt, closeFailed, histVars>>

\* A ProcessFile without the wg.Wait() of line 118.
WaitWorkersNoWait ==
    /\ Running
    /\ pcMain = "wait"
    /\ pcMain' = "close"
    /\ UNCHANGED <<rvVars, cfgVars, spawned, wg, received, panicked, readVars,
                   workVars, writeVars, histVars>>

\* line 118: wg.Wait() returns once the counter is zero
WaitWorkers ==
    /\ Running
    /\ pcMain = "wait"
    /\ wg = 0
    /\ pcMain' = "close"
    /\ UNCHANGED <<rvVars, cfgVars, spawned, wg, received, panicked, readVars, workVars,
                   writeVars, histVars>>

\* line 120: close(resultChannel)
CloseResults ==
    /\ Running
    /\ pcMain = "close"
    /\ resultClosed' = TRUE
    /\ pcMain' = "recv"
    /\ UNCHANGED <<rvVars, cfgVars, spawned, wg, received, panicked, readVars, pcW, held,
                   resultChannel, writeVars, histVars>>

\* ---------------------------------------------------------------- readChunks
\* A readChunks that returns on an open failure without closing its channel.
OpenInputFailNoClose ==
    /\ Running
    /\ pcRead = "open"
    /\ inOpenFailed' = TRUE
    /\ pcRead' = "done"
    /\ UNCHANGED <<rvVars, cfgVars, mainVars, i, pos, readChannel, readClosed, readFailed,
                   workVars, writeVars, histVars,
                   sawEOF>>

\* lines 22-28: os.Open fails: the deferred close(output) runs and readChunks returns
OpenInputFail ==
    /\ Running
    /\ pcRead = "open"
    /\ inOpenFailed' = TRUE
    /\ readClosed' = TRUE
    /\ pcRead' = "done"
    /\ UNCHANGED <<rvVars, cfgVars, mainVars, i, pos, readChannel, readFailed, workVars,
                   writeVars, histVars,
                   sawEOF>>

\* lines 24, 36-37: os.Open succeeds
OpenInputOk ==
    /\ Running
    /\ pcRead = "open"
    /\ pcRead' = "read"
    /\ UNCHANGED <<rvVars, cfgVars, mainVars, i, pos, readChannel, readClosed,
                   inOpenFailed, readFailed, workVars, writeVars, histVars,
                   sawEOF>>

\* line 39: the n io.ReadFull returns when no read fails: size bytes, or the
\* bytes left in the file when they are fewer.
ReadFullN == Min(size, Len(inFile) - pos)

\* A readChunks that stops at io.ErrUnexpectedEOF, dropping a short last chunk.
EmitsShardFullOnly == ReadFullN = size
\* line 40: the branch that feeds the channel is taken when err is nil (n = size)
\* or io.ErrUnexpectedEOF (0 < n < size), and not when it is io.EOF (n = 0).
EmitsShard == ReadFullN > 0

\* line 47: shard{i, string(buffer[0:n])}
ReadShard == Shard(i, SubSeq(inFile, pos + 1, pos + ReadFullN))

\* A readChunks whose send never blocks (a channel without a capacity).
ReadChunkUnbounded ==
    /\ Running
    /\ pcRead = "read"
    /\ EmitsShard
    /\ readChannel' = Append(readChannel, ReadShard)
    /\ emitted' = Append(emitted, ReadShard)
    /\ taken' = Append(taken, 0)
    /\ i' = i + 1
    /\ pos' = pos + Len(ReadShard.value)
    /\ sawEOF' = (ReadFullN < size)
    /\ UNCHANGED <<rvVars, cfgVars, mainVars, pcRead, readClosed, inOpenFailed,
                   readFailed, workVars, writeVars, collected, written, sent>>

\* lines 39-47: io.ReadFull returns nil or io.ErrUnexpectedEOF with n > 0 bytes;
\* the shard is sent on the channel (the send blocks while the buffer is full)
ReadChunk ==
    /\ Running
    /\ pcRead = "read"
    /\ EmitsShard
    /\ Len(readChannel) < num
    /\ readChannel' = Append(readChannel, ReadShard)
    /\ emitted' = Append(emitted, ReadShard)
    /\ taken' = Append(taken, 0)
    /\ i' = i + 1
    /\ pos' = pos + Len(ReadShard.value)
    /\ sawEOF' = (ReadFullN < size)
    /\ UNCHANGED <<rvVars, cfgVars, mainVars, pcRead, readClosed, inOpenFailed,
                   readFailed, workVars, writeVars, collected, written, sent>>

\* A readChunks that leaves its loop at end of file without closing its channel.
ReadEOFNoClose ==
    /\ Running
    /\ pcRead = "read"
    /\ ~EmitsShard
    /\ pcRead' = "done"
    /\ UNCHANGED <<rvVars, cfgVars, mainVars, i, pos, readChannel, readClosed,
                   inOpenFailed, readFailed, sawEOF, workVars, writeVars, histVars>>

\* lines 39-44: io.ReadFull returns io.EOF (no byte left): break, close(output)
ReadEOF ==
    /\ Running
    /\ pcRead = "read"
    /\ ~EmitsShard
    /\ readClosed' = TRUE
    /\ pcRead' = "done"
    /\ UNCHANGED <<rvVars, cfgVars, mainVars, i, pos, readChannel, inOpenFailed,
                   readFailed, workVars, writeVars, histVars,
                   sawEOF>>

\* A readChunks that feeds the channel the bytes read before the error.
ReadErrorKeepsPartial ==
    /\ Running
    /\ pcRead = "read"
    /\ ReadFullN > 1
    /\ Len(readChannel) < num
    /\ readChannel' = Append(readChannel, Shard(i, SubSeq(inFile, pos + 1, pos + 1)))
    /\ emitted' = Append(emitted, Shard(i, SubSeq(inFile, pos + 1, pos + 1)))
    /\ taken' = Append(taken, 0)
    /\ readFailed' = TRUE
    /\ readClosed' = TRUE
    /\ pcRead' = "done"
    /\ UNCHANGED <<rvVars, cfgVars, mainVars, i, pos, inOpenFailed, workVars, writeVars,
                   collected, written, sent,
                   sawEOF>>

\* lines 39-44: io.ReadFull returns another error (the bytes it had read before
\* the error are dropped): break, close(output)
ReadError ==
    /\ Running
    /\ pcRead = "read"
    /\ readFailed' = TRUE
    /\ readClosed' = TRUE
    /\ pcRead' = "done"
    /\ UNCHANGED <<rvVars, cfgVars, mainVars, i, pos, readChannel, inOpenFailed,
                   workVars, writeVars, histVars,
                   sawEOF>>

\* ---------------------------------------------------------------- workers
\* A receive that leaves the shard in the channel.
AfterReceiveKeeps(ch) == ch
\* What `for read := range readChannel` leaves in the channel after a receive.
AfterReceive(ch) == Tail(ch)

\* lines 107-109: receive a shard from readChannel and apply process to it
WorkerRecv(w) ==
    /\ Running
    /\ pcW[w] = "recv"
    /\ readChannel # <<>>
    /\ LET read == Head(readChannel)
       IN  /\ held' = [held EXCEPT ![w] = Process(process, read)]
           /\ taken' = [taken EXCEPT ![read.index + 1] = @ + 1]
    /\ readChannel' = AfterReceive(readChannel)
    /\ pcW' = [pcW EXCEPT ![w] = "send"]
    /\ UNCHANGED <<rvVars, cfgVars, mainVars, pcRead, i, pos, readClosed, inOpenFailed,
                   readFailed, resultChannel, resultClosed, writeVars, emitted,
                   collected, written, sent,
                   sawEOF>>

\* line 109: resultChannel <- process(read); blocks while the buffer is full,
\* panics if the channel is closed
WorkerSend(w) ==
    /\ Running
    /\ pcW[w] = "send"
    /\ IF resultClosed
       THEN /\ panicked' = TRUE
            /\ UNCHANGED <<resultChannel, pcW, held>>
       ELSE /\ Len(resultChannel) < num
            /\ resultChannel' = Append(resultChannel, held[w])
            /\ pcW' = [pcW EXCEPT ![w] = "recv"]
            /\ held' = [held EXCEPT ![w] = Shard(0, <<>>)]
            /\ UNCHANGED panicked
    /\ UNCHANGED <<rvVars, cfgVars, pcMain, spawned, wg, received, readVars,
                   resultClosed, writeVars, histVars>>

\* lines 107, 111: readChannel is closed and drained: the loop ends, wg.Done()
WorkerExit(w) ==
    /\ Running
    /\ pcW[w] = "recv"
    /\ readChannel = <<>>
    /\ readClosed
    /\ pcW' = [pcW EXCEPT ![w] = "done"]
    /\ wg' = wg - 1
    /\ UNCHANGED <<rvVars, cfgVars, pcMain, spawned, received, panicked, readVars, held,
                   resultChannel, resultClosed, writeVars, histVars>>

\* ---------------------------------------------------------------- writeResults
\* lines 59-60: receive a result and store it in the map
Collect ==
    /\ Running
    /\ pcWrite = "drain"
    /\ resultChannel # <<>>
    /\ result' = MapPut(result, Head(resultChannel))
    /\ resultChannel' = Tail(resultChannel)
    /\ collected' = Append(collected, Head(resultChannel).index)
    /\ UNCHANGED <<rvVars, cfgVars, mainVars, readVars, pcW, held, resultClosed, pcWrite,
                   wi, outFile, offset, outOpened, outOpenFailed, writeFailedAt,
                   closeFailed, emitted, taken, written, sent>>

\* A writeResults that leaves its receive loop as soon as the queue is empty.
CollectEndEarly ==
    /\ Running
    /\ pcWrite = "drain"
    /\ resultChannel = <<>>
    /\ pcWrite' = "open"
    /\ UNCHANGED <<rvVars, cfgVars, mainVars, readVars, workVars, result, wi,
                   outFile, offset, outOpened, outOpenFailed, writeFailedAt,
                   closeFailed, histVars>>

\* line 59: resultChannel is closed and drained: the range loop ends
CollectEnd ==
    /\ Running
    /\ pcWrite = "drain"
    /\ resultChannel = <<>>
    /\ resultClosed
    /\ pcWrite' = "open"
    /\ UNCHANGED <<rvVars, cfgVars, mainVars, readVars, workVars, result, wi, outFile,
                   offset, outOpened, outOpenFailed, writeFailedAt, closeFailed,
                   histVars>>

\* The content of the output file right after os.OpenFile succeeded
\* (flags os.O_WRONLY|os.O_CREATE: created if missing, never truncated).
OpenedContent(old) == old

\* line 63: os.OpenFile succeeds; the write loop starts at i = 0, offset 0
OpenOutputOk ==
    /\ Running
    /\ pcWrite = "open"
    /\ outOpened' = TRUE
    /\ outFile' = OpenedContent(outFile)
    /\ offset' = 0
    /\ wi' = 0
    /\ pcWrite' = "write"
    /\ UNCHANGED <<rvVars, cfgVars, mainVars, readVars, workVars, result, outOpenFailed,
                   writeFailedAt, closeFailed, histVars>>

\* A writeResults that returns on an open failure without sending on done.
OpenOutputFailNoSend ==
    /\ Running
    /\ pcWrite = "open"
    /\ outOpenFailed' = TRUE
    /\ pcWrite' = "done"
    /\ UNCHANGED <<rvVars, cfgVars, mainVars, readVars, workVars, result, wi, outFile,
                   offset, outOpened, writeFailedAt, closeFailed, histVars>>

\* lines 63-66: os.OpenFile fails: done <- false is next
OpenOutputFail ==
    /\ Running
    /\ pcWrite = "open"
    /\ outOpenFailed' = TRUE
    /\ pcWrite' = "sendOpenFail"
    /\ UNCHANGED <<rvVars, cfgVars, mainVars, readVars, workVars, result, wi, outFile,
                   offset, outOpened, writeFailedAt, closeFailed, histVars>>

\* A write loop that runs up to the largest key of the map.
MoreToWriteMaxKey == \E k \in DOMAIN result : wi <= k
\* line 77: the loop condition i < len(result)
MoreToWrite == wi < Cardinality(DOMAIN result)

\* lines 77-78: file.WriteString(result[i]) succeeds
WriteOk ==
    /\ Running
    /\ pcWrite = "write"
    /\ MoreToWrite
    /\ outFile' = WriteAt(outFile, offset, Lookup(result, wi))
    /\ offset' = offset + Len(Lookup(result, wi))
    /\ written' = Append(written, wi)
    /\ wi' = wi + 1
    /\ UNCHANGED <<rvVars, cfgVars, mainVars, readVars, workVars, pcWrite, result,
                   outOpened, outOpenFailed, writeFailedAt, closeFailed, emitted,
                   taken, collected, sent>>

\* A writeResults that breaks on a write error without sending false.
AfterWriteErrorNoSignal == "sendTrue"
\* Where writeResults goes after a failed WriteString: lines 80-82 send false
\* and break.
AfterWriteError == "sendWriteFail"

\* lines 78-82: file.WriteString(result[i]) fails after writing k bytes of the
\* payload, k less than its length (k = 0 for an empty payload)
WriteFail ==
    /\ Running
    /\ pcWrite = "write"
    /\ MoreToWrite
    /\ \E k \in 0..(IF Lookup(result, wi) = <<>> THEN 0
                    ELSE Len(Lookup(result, wi)) - 1) :
          /\ outFile' = WriteAt(outFile, offset, SubSeq(Lookup(result, wi), 1, k))
          /\ offset' = offset + k
    /\ writeFailedAt' = wi
    /\ pcWrite' = AfterWriteError
    /\ UNCHANGED <<rvVars, cfgVars, mainVars, readVars, workVars, result, wi, outOpened,
                   outOpenFailed, closeFailed, histVars>>

\* line 77: the loop condition is false: line 86 is next
WriteEnd ==
    /\ Running
    /\ pcWrite = "write"
    /\ ~MoreToWrite
    /\ pcWrite' = "sendTrue"
    /\ UNCHANGED <<rvVars, cfgVars, mainVars, readVars, workVars, result, wi, outFile,
                   offset, outOpened, outOpenFailed, writeFailedAt, closeFailed,
                   histVars>>

\* The send statements of writeResults: lines 66, 81, 86 and 73.
SendSites == {"sendOpenFail", "sendWriteFail", "sendTrue", "sendCloseFail"}

\* A writeResults that sends true at every send statement.
SendValueAlwaysTrue(pc) == "true"
\* The value each send statement sends.
SendValue(pc) == IF pc = "sendTrue" THEN "true" ELSE "false"

\* A writeResults without the return of line 67: after sending false for the
\* open failure it goes on to the write loop.
AfterSendNoReturn(pc) ==
    CASE pc = "sendOpenFail"  -> "write"
      [] pc = "sendWriteFail" -> "sendTrue"
      [] pc = "sendTrue"      -> "close"
      [] pc = "sendCloseFail" -> "done"
\* Where writeResults continues after each send: return (line 67); break, then
\* line 86 (lines 82, 86); the deferred close (lines 70-71); the end.
AfterSend(pc) ==
    CASE pc = "sendOpenFail"  -> "done"
      [] pc = "sendWriteFail" -> "sendTrue"
      [] pc = "sendTrue"      -> "close"
      [] pc = "sendCloseFail" -> "done"

\* lines 66/73/81/86 with line 122: a send on the unbuffered channel
\* writingSuccessful completes only together with ProcessFile's receive, after
\* which ProcessFile prints the success message if the value is true, and returns
SendDone ==
    /\ Running
    /\ pcWrite \in SendSites
    /\ pcMain = "recv"
    /\ received' = SendValue(pcWrite)
    /\ sent' = Append(sent, SendValue(pcWrite))
    /\ pcMain' = "returned"
    /\ pcWrite' = AfterSend(pcWrite)
    /\ UNCHANGED <<rvVars, cfgVars, spawned, wg, panicked, readVars, workVars, result, wi,
                   outFile, offset, outOpened, outOpenFailed, writeFailedAt,
                   closeFailed, emitted, taken, collected, written>>

\* lines 70-71: the deferred file.Close() succeeds
CloseOutputOk ==
    /\ Running
    /\ pcWrite = "close"
    /\ pcWrite' = "done"
    /\ UNCHANGED <<rvVars, cfgVars, mainVars, readVars, workVars, result, wi, outFile,
                   offset, outOpened, outOpenFailed, writeFailedAt, closeFailed,
                   histVars>>

\* lines 71-73: the deferred file.Close() fails: done <- false is next
CloseOutputFail ==
    /\ Running
    /\ pcWrite = "close"
    /\ closeFailed' = TRUE
    /\ pcWrite' = "sendCloseFail"
    /\ UNCHANGED <<rvVars, cfgVars, mainVars, readVars, workVars, result, wi, outFile,
                   offset, outOpened, outOpenFailed, writeFailedAt, histVars>>

\* ---------------------------------------------------------------- specification
Next ==
    \/ GoReadChunks \/ SpawnWorker \/ GoWriteResults \/ WaitWorkers \/ CloseResults
    \/ OpenInputFail \/ OpenInputOk \/ ReadChunk \/ ReadEOF \/ ReadError
    \/ \E w \in Workers : WorkerRecv(w) \/ WorkerSend(w) \/ WorkerExit(w)
    \/ Collect \/ CollectEnd \/ OpenOutputOk \/ OpenOutputFail
    \/ WriteOk \/ WriteFail \/ WriteEnd
    \/ SendDone \/ CloseOutputOk \/ CloseOutputFail

Spec == Init /\ [][Next]_vars

\* Fair scheduling: the Go scheduler runs every goroutine that can take a step,
\* and a send and a receive that are both ready on writingSuccessful complete.
MainStep      == GoReadChunks \/ SpawnWorker \/ GoWriteResults \/ WaitWorkers
                   \/ CloseResults
ReaderStep    == OpenInputFail \/ OpenInputOk \/ ReadChunk \/ ReadEOF \/ ReadError
WorkerStep(w) == WorkerRecv(w) \/ WorkerSend(w) \/ WorkerExit(w)
WriterStep    == Collect \/ CollectEnd \/ OpenOutputOk \/ OpenOutputFail \/ WriteOk
                   \/ WriteFail \/ WriteEnd \/ CloseOutputOk \/ CloseOutputFail

\* Whether the pipeline terminates depends on the lengths, not on the bytes:
\* the fair specification starts from input files of one byte value and no
\* pre-existing output.
LiveInit == Init /\ inFile \in SeqsUpTo({1}, MaxFileLen) /\ outOld = <<>>

FairSpec ==
    /\ LiveInit /\ [][Next]_vars
    /\ WF_vars(MainStep)
    /\ WF_vars(ReaderStep)
    /\ \A w \in Workers : WF_vars(WorkerStep(w))
    /\ WF_vars(WriterStep)
    /\ WF_vars(SendDone)

\* ---------------------------------------------------------------- ReadValue
\* int64 arithmetic, on two's-complement integers of IntBits bits: a product
\* that leaves the range wraps around, as Go's does.
RECURSIVE Pow2(_)
Pow2(n) == IF n = 0 THEN 1 ELSE 2 * Pow2(n - 1)
IntMin == -Pow2(IntBits - 1)
IntMax == Pow2(IntBits - 1) - 1
Wrap(x) == ((x + Pow2(IntBits - 1)) % Pow2(IntBits)) - Pow2(IntBits - 1)

\* line 147: the offset handed to file.ReadAt, index*size in int64
Offset(index, sz) == Wrap(index * sz)

\* line 147: the n file.ReadAt(buffer, off) returns when no read fails: 0 for a
\* negative offset (an error) or one at or past the end of the file, else the
\* bytes from off to the end of the file, at most len(buffer)
ReadAtN(file, off, sz) ==
    IF off < 0 \/ off >= Len(file) THEN 0 ELSE Min(sz, Len(file) - off)

\* lines 146-152: the buffer when ReadAt filled it, nil when n < size
ReadValue(file, index, sz) ==
    LET off == Offset(index, sz)
        n   == ReadAtN(file, off, sz)
    IN  IF n < sz THEN Nil ELSE Buffer(SubSeq(file, off + 1, off + n))

\* The pipeline's variables while no call of ProcessFile is under way.
PipelineIdle ==
    /\ inFile = <<>> /\ size = 1 /\ num = 1 /\ process = "identity" /\ outOld = <<>>
    /\ pcMain = "goRead" /\ spawned = 0 /\ wg = 0 /\ received = "none"
    /\ panicked = FALSE
    /\ pcRead = "idle" /\ i = 0 /\ pos = 0
    /\ readChannel = <<>> /\ readClosed = FALSE
    /\ inOpenFailed = FALSE /\ readFailed = FALSE /\ sawEOF = FALSE
    /\ pcW = [w \in Workers |-> "idle"]
    /\ held = [w \in Workers |-> Shard(0, <<>>)]
    /\ resultChannel = <<>> /\ resultClosed = FALSE
    /\ pcWrite = "idle" /\ result = <<>> /\ wi = 0
    /\ outFile = <<>> /\ offset = 0
    /\ outOpened = FALSE /\ outOpenFailed = FALSE
    /\ writeFailedAt = -1 /\ closeFailed = FALSE
    /\ emitted = <<>> /\ taken = <<>> /\ collected = <<>>
    /\ written = <<>> /\ sent = <<>>

\* A call ReadValue(filePath, index, size) is at its first statement.
ReadInit ==
    /\ PipelineIdle
    /\ rvPc = "open"
    /\ rvFile \in Files
    /\ rvIndex \in IntMin..IntMax
    /\ rvSize \in 1..MaxRecSize
    /\ rvFailed = "none"
    /\ rvResult = Nil

\* lines 134-138: os.Open fails: return nil
RvOpenFail ==
    /\ rvPc = "open"
    /\ rvFailed' = "open"
    /\ rvResult' = Nil
    /\ rvPc' = "done"
    /\ UNCHANGED <<pipeVars, rvFile, rvIndex, rvSize>>

\* lines 134, 146: os.Open succeeds
RvOpenOk ==
    /\ rvPc = "open"
    /\ rvPc' = "read"
    /\ UNCHANGED <<pipeVars, rvFile, rvIndex, rvSize, rvFailed, rvResult>>

\* lines 147-152: file.ReadAt reads what the file holds at the offset
RvReadAt ==
    /\ rvPc = "read"
    /\ rvResult' = ReadValue(rvFile, rvIndex, rvSize)
    /\ rvPc' = "done"
    /\ UNCHANGED <<pipeVars, rvFile, rvIndex, rvSize, rvFailed>>

\* lines 147-151: the read fails with an I/O error before the buffer is full:
\* n < size, return nil
RvReadError ==
    /\ rvPc = "read"
    /\ rvFailed' = "read"
    /\ rvResult' = Nil
    /\ rvPc' = "done"
    /\ UNCHANGED <<pipeVars, rvFile, rvIndex, rvSize>>

ReadNext == RvOpenFail \/ RvOpenOk \/ RvReadAt \/ RvReadError

ReadSpec == ReadInit /\ [][ReadNext]_vars

\* ---------------------------------------------------------------- properties
RECURSIVE Flatten(_)
\* The concatenation of a sequence of payloads.
Flatten(ss) == IF ss = <<>> THEN <<>> ELSE Head(ss) \o Flatten(Tail(ss))

\* ceil(S / C)
NumChunks(S, C) == (S + C - 1) \div C

\* Chunk k (from 0) of a file cut into pieces of c bytes.
ChunkAt(file, c, k) == SubSeq(file, k * c + 1, Min((k + 1) * c, Len(file)))

\* The payloads process returns for the shards the producer emitted, in index order.
TransformedPayloads == [k \in 1..Len(emitted) |-> Process(process, emitted[k]).value]

\* The payloads process returns for the chunks of the whole input file.
TransformedFile ==
    [k \in 1..NumChunks(Len(inFile), size) |->
        Process(process, Shard(k - 1, ChunkAt(inFile, size, k - 1))).value]

IsPrefix(a, b) == Len(a) <= Len(b) /\ a = SubSeq(b, 1, Len(a))

Returned == pcMain = "returned"
Success  == Returned /\ received = "true"
InputReadInFull == ~inOpenFailed /\ ~readFailed

\* C1: with an index-preserving transform and a fresh output file, what is
\* written is the transformed payloads in ascending index order: the file is at
\* all times a prefix of their concatenation, and equals it once ProcessFile
\* has received success, whatever the order in which the results reached the
\* collector; when the input was read in full this is a function of the input,
\* the chunk size and the transform alone, so the same for every num.
C1_OutputInIndexOrder ==
    (process \in IndexPreserving /\ outOld = <<>>) =>
        /\ IsPrefix(outFile, Flatten(TransformedPayloads))
        /\ Success => outFile = Flatten(TransformedPayloads)
        /\ (Success /\ InputReadInFull) => outFile = Flatten(TransformedFile)

\* C1 witness: a successful run of three chunks on two workers with a
\* length-changing transform whose results reached the collector out of order.
C1_Witness ==
    /\ Success /\ process = "double" /\ outOld = <<>> /\ num = 2
    /\ Len(emitted) = 3
    /\ collected = <<1, 0, 2>>
    /\ outFile = Flatten(TransformedFile)

\* C2: with the identity transform and an input read in full, a run that
\* reports success leaves the output file equal to the input file.
C2_IdentityRoundTrip ==
    (process = "identity" /\ InputReadInFull /\ Success) => outFile = inFile

\* C3: ProcessFile always returns: while it has not returned some step is
\* possible, and under fair scheduling it eventually receives the completion
\* value and returns.
C3_ProcessFileReturns ==
    /\ [](~Returned => ENABLED Next)
    /\ <>Returned

\* C3 witness: ProcessFile has returned from a run in which a read of the input
\* and a write of the output both failed.
C3_Witness == Returned /\ readFailed /\ writeFailedAt >= 0

\* C4: no shard is received twice from the chunk queue; a shard not yet received
\* is still in the queue; and once the collector has seen the result queue
\* closed, every emitted shard was received and processed exactly once and
\* (the transform keeping indices) its result is in the map under its index.
C4_ExactlyOnce ==
    /\ \A k \in 1..Len(emitted) : taken[k] <= 1
    /\ Len(readChannel) = Cardinality({k \in 1..Len(emitted) : taken[k] = 0})
    /\ pcWrite \notin {"idle", "drain"} =>
          \A k \in 1..Len(emitted) :
             /\ taken[k] = 1
             /\ process \in IndexPreserving =>
                   /\ emitted[k].index \in DOMAIN result
                   /\ result[emitted[k].index] = Process(process, emitted[k]).value

\* C4 witness: the collector left its receive loop with three results, taken
\* by two workers.
C4_Witness ==
    /\ pcWrite = "open" /\ num = 2 /\ Len(emitted) = 3
    /\ process \in IndexPreserving
    /\ DOMAIN result = {0, 1, 2}

\* C5: when the input was read to its end without error, readChunks emitted
\* ceil(S / C) shards, shard k (from 0) has index k, every shard but the last
\* has C bytes and the last has S mod C bytes if that is not zero, else C.
C5_ChunkCount ==
    (pcRead = "done" /\ InputReadInFull) =>
        /\ Len(emitted) = NumChunks(Len(inFile), size)
        /\ \A k \in 1..Len(emitted) :
              /\ emitted[k].index = k - 1
              /\ k < Len(emitted) => Len(emitted[k].value) = size
              /\ k = Len(emitted) =>
                    Len(emitted[k].value) =
                       IF Len(inFile) % size # 0 THEN Len(inFile) % size ELSE size
        /\ Len(inFile) = 0 => emitted = <<>>

\* C5 witness: a file of three bytes read in chunks of two: two shards, the
\* last one byte long.
C5_Witness ==
    /\ pcRead = "done" /\ InputReadInFull
    /\ Len(inFile) = 3 /\ size = 2
    /\ Len(emitted) = 2 /\ Len(emitted[2].value) = 1

\* The bytes the collector has written through the output file handle.
BytesWritten == SubSeq(outFile, 1, offset)

\* The payloads under keys 0..len(result)-1 of the collector's map.
CollectedPayloads == [k \in 1..Cardinality(DOMAIN result) |-> Lookup(result, k - 1)]

\* C6: after a run that reports success the output file is exactly the
\* concatenation of the collected payloads, whatever it held before.
C6_OutputTruncated == Success => outFile = Flatten(CollectedPayloads)

\* C7: when the input file cannot be opened, no shard is ever emitted, the
\* chunk queue is closed and stays empty, no worker produces a result, the
\* collector's map stays empty and nothing is written; if the collector can
\* open the output file then the file keeps what it held (a file it creates is
\* empty), no write fails, and the value ProcessFile receives is success.
C7_InputOpenFailure ==
    inOpenFailed =>
        /\ pcRead = "done" /\ readClosed
        /\ emitted = <<>> /\ readChannel = <<>>
        /\ \A w \in Workers : pcW[w] # "send"
        /\ resultChannel = <<>> /\ result = <<>> /\ collected = <<>>
        /\ written = <<>> /\ offset = 0 /\ writeFailedAt = -1
        /\ outFile = outOld
        /\ (outOpened /\ outOld = <<>>) => outFile = <<>>
        /\ (Returned /\ ~outOpenFailed) => received = "true"

\* C7 witness: the input failed to open, both workers exited, the collector
\* created the output file, and ProcessFile received success.
C7_Witness ==
    /\ inOpenFailed /\ Success /\ outOpened /\ outOld = <<>> /\ outFile = <<>>
    /\ num = 2 /\ \A w \in 1..num : pcW[w] = "done"
    /\ Len(inFile) > 0

\* C8: once the write of key k has failed, only keys below k have been written,
\* the write loop is over, and the value ProcessFile receives is failure; when
\* the output file opened and no write failed the value received is success.
C8_WriteFailure ==
    /\ writeFailedAt >= 0 =>
          /\ \A j \in 1..Len(written) : written[j] < writeFailedAt
          /\ wi = writeFailedAt
          /\ pcWrite \in {"sendWriteFail", "sendTrue"}
          /\ Returned => received = "false"
          /\ sent \in {<<>>, <<"false">>}
    /\ (Returned /\ outOpened /\ writeFailedAt = -1) => received = "true"

\* C8 witness: the write of key 1 of three failed after key 0 was written, and
\* ProcessFile received failure.
C8_Witness ==
    /\ writeFailedAt = 1 /\ written = <<0>> /\ Cardinality(DOMAIN result) = 3
    /\ Returned /\ received = "false"

\* C9: when the output file cannot be opened the collector writes nothing,
\* sends false once and exits, and the value ProcessFile receives is failure.
C9_OutputOpenFailure ==
    outOpenFailed =>
        /\ ~outOpened /\ written = <<>> /\ offset = 0 /\ outFile = outOld
        /\ writeFailedAt = -1
        /\ pcWrite \in {"sendOpenFail", "done"}
        /\ pcWrite = "sendOpenFail" => (sent = <<>> /\ ~Returned)
        /\ pcWrite = "done" => (sent = <<"false">> /\ Returned /\ received = "false")

\* C9 witness: the output failed to open after results were collected, the
\* collector has exited and ProcessFile received failure.
C9_Witness ==
    /\ outOpenFailed /\ pcWrite = "done" /\ Returned /\ received = "false"
    /\ Cardinality(DOMAIN result) = 2

\* C10: after a read error the producer has stopped and closed the chunk
\* queue; the shards it emitted are the first k chunks of the file, with
\* indices 0..k-1, and, the read having failed mid-stream (before the end of
\* the file was seen), size bytes each; the pipeline can still run on until
\* ProcessFile returns; and on success (the transform keeping indices) the
\* bytes written are the transformed prefix, which is the whole of a fresh
\* output file.
C10_ReadFailurePrefix ==
    readFailed =>
        /\ pcRead = "done" /\ readClosed
        /\ Len(emitted) <= NumChunks(Len(inFile), size)
        /\ ~sawEOF => Len(emitted) <= Len(inFile) \div size
        /\ \A k \in 1..Len(emitted) :
              /\ emitted[k] = Shard(k - 1, ChunkAt(inFile, size, k - 1))
              /\ ~sawEOF => Len(emitted[k].value) = size
        /\ ~Returned => ENABLED Next
        /\ (Success /\ process \in IndexPreserving) =>
              /\ BytesWritten = Flatten(TransformedPayloads)
              /\ outOld = <<>> => outFile = Flatten(TransformedPayloads)

\* C10 witness: the third read of a three-byte file failed; the two shards
\* emitted before were transformed and written, and ProcessFile received success.
C10_Witness ==
    /\ readFailed /\ ~sawEOF /\ Success /\ process = "double"
    /\ Len(inFile) = 3 /\ size = 1 /\ Len(emitted) = 2
    /\ BytesWritten = Flatten(TransformedPayloads) /\ Len(BytesWritten) = 4

\* C11: on a file of N = Len \div size whole records, with no I/O error,
\* ReadValue returns the bytes [i*size, (i+1)*size) of the file for 0 <= i < N,
\* and nil for i < 0, for i >= N, and whenever fewer than size bytes lie at
\* offset i*size.
C11_ReadValue ==
    (rvPc = "done" /\ rvFailed = "none") =>
        LET N == Len(rvFile) \div rvSize
        IN  /\ (0 <= rvIndex /\ rvIndex < N) =>
                  rvResult = Buffer(SubSeq(rvFile, rvIndex * rvSize + 1,
                                           (rvIndex + 1) * rvSize))
            /\ (rvIndex < 0 \/ rvIndex >= N
                  \/ Len(rvFile) - rvIndex * rvSize < rvSize) => rvResult = Nil

\* C12: readChunks has closed the chunk queue exactly when it has exited; the
\* close happens in the step in which it exits (from the open or from a read)
\* and never again; nothing is enqueued on the closed queue; and a worker
\* exits only when the queue is closed and empty.
C12_CloseOnce ==
    /\ [](readClosed <=> pcRead = "done")
    /\ [][/\ readClosed' # readClosed =>
                (~readClosed /\ pcRead \in {"open", "read"} /\ pcRead' = "done")
          /\ pcRead = "done" => pcRead' = "done"
          /\ readClosed => (emitted' = emitted /\ Len(readChannel') <= Len(readChannel))
          /\ \A w \in Workers :
                (pcW[w] # "done" /\ pcW'[w] = "done") =>
                    (readClosed /\ readChannel = <<>>)]_vars

\* C12 witness: readChunks exited at end of file after a short last chunk, the
\* queue is closed and both workers have exited on it.
C12_Witness ==
    /\ pcRead = "done" /\ readClosed /\ sawEOF /\ ~readFailed
    /\ Len(emitted) = 2 /\ num = 2
    /\ \A w \in 1..num : pcW[w] = "done"

\* C13: the result queue is closed by one step of ProcessFile, taken when the
\* wait group is at zero, and never reopened or closed again; while it is
\* closed every worker has exited and nothing is added to it; no send on the
\* closed queue ever panics.
C13_ResultCloseAfterWorkers ==
    /\ [](~panicked)
    /\ [](resultClosed <=> pcMain \in {"recv", "returned"})
    /\ [](resultClosed => (wg = 0 /\ \A w \in 1..num : pcW[w] = "done"))
    /\ [][/\ resultClosed' # resultClosed =>
                (~resultClosed /\ pcMain = "close" /\ pcMain' = "recv")
          /\ resultClosed =>
                (resultClosed' /\ Len(resultChannel') <= Len(resultChannel))]_vars

\* C13 witness: the result queue was closed with results of two workers still
\* in it, all workers having exited.
C13_Witness ==
    /\ resultClosed /\ ~panicked /\ num = 2 /\ Len(resultChannel) = 2
    /\ \A w \in 1..num : pcW[w] = "done"

\* The collector is still in, or before, its receive loop.
Collecting == pcWrite \in {"idle", "drain"}

\* C14: while the collector is in its receive loop the output file is neither
\* opened nor written; once it has left the loop the result queue is closed
\* and empty, every emitted shard's result has been received (and, the
\* transform keeping indices, is in the map under its index), and the map
\* never changes again.
C14_MapCompleteBeforeWrite ==
    /\ [](Collecting =>
            /\ ~outOpened /\ ~outOpenFailed
            /\ outFile = outOld /\ offset = 0 /\ written = <<>>
            /\ writeFailedAt = -1)
    /\ [](~Collecting =>
            /\ resultClosed /\ resultChannel = <<>>
            /\ pcRead = "done"
            /\ Len(collected) = Len(emitted)
            /\ process \in IndexPreserving =>
                  /\ DOMAIN result = 0..(Len(emitted) - 1)
                  /\ \A k \in 1..Len(emitted) :
                        result[k - 1] = Process(process, emitted[k]).value)
    /\ [][~Collecting => (result' = result /\ collected' = collected)]_vars

\* C14 witness: the collector is about to do its first write, with the results
\* of all three emitted shards in the map.
C14_Witness ==
    /\ pcWrite = "write" /\ wi = 0 /\ offset = 0 /\ written = <<>>
    /\ Len(emitted) = 3 /\ DOMAIN result = {0, 1, 2}

\* C15: the completion signal is one-shot: at most one value is delivered on
\* writingSuccessful, and once one was delivered the collector is never at a
\* send statement again.
C15_OneShot ==
    /\ Len(sent) <= 1
    /\ sent # <<>> => pcWrite \notin SendSites

\* Every goroutine ProcessFile started has exited.
AllExited ==
    /\ pcRead = "done"
    /\ \A w \in 1..num : pcW[w] = "done"
    /\ pcWrite = "done"

\* C16: every stage terminates: a state in which no step is possible is one
\* in which the producer, every worker and the collector have exited.
C16_EveryStageExits == ENABLED Next \/ AllExited

\* Shards emitted whose result the collector has not yet stored.
InFlight == Len(emitted) - Len(collected)

KeysUpTo(n) == [k \in 1..n |-> k - 1]

\* C18: with a transform that changes indices the collector writes the keys
\* 0..m-1 in order, m the number of keys of the map: what the map holds under
\* a key, nothing for a key it lacks, never a key >= m; and when the file
\* opened and no write failed ProcessFile receives success with exactly those
\* bytes written, whatever was collected under other keys.
C18_NonContiguousIndices ==
    (process \notin IndexPreserving /\ ~Collecting) =>
        LET m == Cardinality(DOMAIN result)
        IN  /\ wi <= m
            /\ written = KeysUpTo(IF writeFailedAt = -1 THEN wi ELSE writeFailedAt)
            /\ writeFailedAt = -1 =>
                  BytesWritten = Flatten([k \in 1..wi |-> Lookup(result, k - 1)])
            /\ (Returned /\ outOpened /\ writeFailedAt = -1) =>
                  /\ received = "true"
                  /\ wi = m
                  /\ BytesWritten = Flatten(CollectedPayloads)

\* C18 witness: every index was shifted by one, so the map holds keys 1 and 2:
\* the loop wrote key 0 (nothing) and key 1, the payload under key 2 was
\* dropped, and ProcessFile received success.
C18_Witness ==
    /\ process = "shift" /\ Success
    /\ DOMAIN result = {1, 2} /\ written = <<0, 1>>
    /\ BytesWritten = result[1] /\ result[2] # <<>>

\* C19: the value true is sent only from the end of a write loop that wrote
\* every key 0..count-1 in ascending order without error into the opened
\* file, and whenever ProcessFile has received true that is the case.
C19_SuccessAfterAllWritten ==
    /\ [](Success =>
            /\ outOpened /\ writeFailedAt = -1
            /\ wi = Cardinality(DOMAIN result)
            /\ written = KeysUpTo(Cardinality(DOMAIN result))
            /\ BytesWritten = Flatten(CollectedPayloads))
    /\ [][(received' = "true" /\ received # "true") =>
            /\ outOpened /\ writeFailedAt = -1
            /\ written = KeysUpTo(Cardinality(DOMAIN result))
            /\ BytesWritten = Flatten(CollectedPayloads)
            /\ written' = written /\ outFile' = outFile]_vars

\* C19 witness: ProcessFile received true after three payloads were written in
\* key order.
C19_Witness ==
    /\ Success /\ written = <<0, 1, 2>> /\ process = "double"
    /\ Len(BytesWritten) = 6

====
